---------------------------- MODULE Spec2Model ----------------------------
(***************************************************************************)
(* MealMD (src/mealmd_wizard.py): the scoring engine score_meal, the       *)
(* recommender recommend, the preference store and the question wizard of  *)
(* main().                                                                 *)
(*                                                                         *)
(* Scores are Python floats that start at 50.0 and only ever change by     *)
(* integer weights, so every score is integer valued; they are modelled as *)
(* integers.  Display-only fields of a meal (items, notes, calcium_mg) are *)
(* not read by any rule and are left out of the meal records.              *)
(***************************************************************************)
EXTENDS Integers, Sequences, FiniteSets, TLC

(***************************************************************************)
(* Bounds of the model.                                                    *)
(***************************************************************************)
\* recommend is called with top_k in -2..MaxTopK
MaxTopK == 13
\* seeds are None or 0..MaxSeed
MaxSeed == 1
\* sets of avoided tags have at most MaxAvoids tags (or are all seven)
MaxAvoids == 1
\* the global generator has RngMod states
RngMod == 16
\* a session makes at most MaxCalls calls of recommend
MaxCalls == 3
\* the user types option numbers 0..MaxChoice
MaxChoice == 2
\* and at most MaxPicks numbers in one comma separated line
MaxPicks == 1

\* an Optional[int] is <<>> (None) or <<n>>
None == <<>>
Some(n) == <<n>>

(***************************************************************************)
(* Data: the catalog and the weights.                                      *)
(***************************************************************************)
Meal(name, calories, protein_g, carbs_g, fat_g, sodium_mg, protein_type, allergens, effort, takeout_ok, spice) ==
    [name |-> name, calories |-> calories, protein_g |-> protein_g,
     carbs_g |-> carbs_g, fat_g |-> fat_g, sodium_mg |-> sodium_mg,
     protein_type |-> protein_type, allergens |-> allergens,
     effort |-> effort, takeout_ok |-> takeout_ok, spice |-> spice]

MEALS ==
    << Meal("Grilled Salmon Bowl", 650, 45, 55, 24, 520, "fish",
            <<"dairy">>, "med", TRUE, "mild"),
       Meal("Chicken Thigh + Sweet Potato Plate", 620, 42, 62, 18, 480, "poultry",
            <<"sesame">>, "med", TRUE, "mild"),
       Meal("Tofu Stir-Fry", 600, 36, 70, 16, 420, "plant",
            <<"soy", "gluten?">>, "low", FALSE, "medium"),
       Meal("Lentil Curry + Rice", 680, 32, 98, 16, 540, "plant",
            <<>>, "med", TRUE, "medium"),
       Meal("Turkey Chili (Lean)", 640, 48, 58, 18, 620, "poultry",
            <<>>, "med", TRUE, "medium"),
       Meal("Beef Steak Plate", 720, 50, 46, 30, 540, "beef",
            <<"dairy?">>, "high", TRUE, "mild"),
       Meal("Egg White Veggie Omelet + Oats", 520, 36, 66, 8, 420, "plant",
            <<"eggs", "gluten?">>, "low", FALSE, "mild"),
       Meal("Greek Yogurt Power Bowl", 580, 42, 48, 20, 180, "plant",
            <<"dairy", "nuts">>, "low", FALSE, "mild"),
       Meal("Sardine Avocado Toast", 560, 32, 44, 28, 520, "fish",
            <<"gluten?", "fish">>, "low", TRUE, "mild"),
       Meal("Tempeh Buddha Bowl", 620, 38, 70, 16, 460, "plant",
            <<"soy", "sesame">>, "med", FALSE, "mild"),
       Meal("Shrimp Rice Bowl", 600, 42, 64, 14, 640, "shellfish",
            <<"shellfish">>, "low", TRUE, "mild"),
       Meal("Chickpea Pasta Primavera", 580, 34, 70, 14, 380, "plant",
            <<>>, "low", FALSE, "mild") >>

NumMeals == Len(MEALS)

WEIGHTS ==
    [match_protein_pref |-> 8, mismatch_protein_pref |-> 4,
     plant_only_penalty |-> 30, fish_pref_bonus |-> 6,
     goal_cut |-> 10, goal_bulk |-> 10, goal_maint |-> 5,
     fat_penalty_cut |-> 4,
     pre_low_fat |-> 6, pre_good_carbs |-> 4, pre_mod_protein |-> 3,
     post_protein |-> 6, post_carbs |-> 4, post_low_fat |-> 2,
     effort_low_bonus |-> 6, effort_low_penalty |-> 3, effort_med_bonus |-> 3,
     effort_high_bonus |-> 4, effort_restaurant_bonus |-> 5,
     effort_restaurant_penalty |-> 4,
     sodium_low_bonus |-> 5, sodium_high_penalty |-> 6,
     sodium_too_high_penalty |-> 2,
     spice_match_bonus |-> 2]

Range(s) == {s[i] : i \in 1..Len(s)}

(***************************************************************************)
(* score_meal.  Each rule yields the amount d it adds to the running score *)
(* and the reasons r it appends, in the order of the code.                 *)
(***************************************************************************)
Adj(d, r) == [d |-> d, r |-> r]

\* a conditional tag is a tag with a trailing '?'; BaseTag strips the marker
BaseTag(t) ==
    CASE t = "gluten?" -> "gluten"
      [] t = "dairy?" -> "dairy"
      [] OTHER -> t

\* variant: tags are compared by their base name
AvoidsConflict_BaseName(meal, avoids) ==
    \E a \in avoids : a \in {BaseTag(t) : t \in Range(meal.allergens)}

\* variant: only the first tag of the meal is looked at
AvoidsConflict_FirstTag(meal, avoids) ==
    meal.allergens # <<>> /\ meal.allergens[1] \in avoids

\* any(a in meal.allergens for a in avoids): tags are compared verbatim
AvoidsConflict(meal, avoids) ==
    \E a \in avoids : a \in Range(meal.allergens)

ProteinRule(meal, protein_pref) ==
    IF protein_pref = "no-preference" THEN Adj(0, <<>>)
    ELSE IF protein_pref = "plant-only" THEN
        IF meal.protein_type # "plant"
        THEN Adj(0 - WEIGHTS.plant_only_penalty, <<"prefers plant-only">>)
        ELSE Adj(0, <<>>)
    ELSE IF protein_pref = "fish/seafood" THEN
        IF meal.protein_type \notin {"fish", "shellfish"}
        THEN Adj(0 - WEIGHTS.mismatch_protein_pref, <<>>)
        ELSE Adj(WEIGHTS.fish_pref_bonus, <<"matches fish/seafood preference">>)
    ELSE
        IF meal.protein_type = protein_pref
        THEN Adj(WEIGHTS.match_protein_pref, <<"matches protein preference">>)
        ELSE Adj(0 - WEIGHTS.mismatch_protein_pref, <<>>)

GoalRule(meal, goal) ==
    IF goal = "cut" THEN
        LET hit == meal.calories <= 600 /\ meal.protein_g >= 35
        IN  Adj((IF hit THEN WEIGHTS.goal_cut ELSE 0)
                  - (IF meal.fat_g > 22 THEN WEIGHTS.fat_penalty_cut ELSE 0),
                IF hit THEN <<"cut: high protein, moderate calories">> ELSE <<>>)
    ELSE IF goal = "bulk" THEN
        IF meal.calories >= 650 /\ meal.protein_g >= 40
        THEN Adj(WEIGHTS.goal_bulk, <<"bulk: higher cals & protein">>)
        ELSE IF meal.calories < 600 THEN Adj(0 - 3, <<>>)
        ELSE Adj(0, <<>>)
    ELSE
        IF 500 <= meal.calories /\ meal.calories <= 700
        THEN Adj(WEIGHTS.goal_maint, <<"maintenance-friendly calories">>)
        ELSE Adj(0, <<>>)

TimingRule(meal, timing) ==
    IF timing = "pre" THEN
        LET lowfat == meal.fat_g <= 20
            carbs  == 40 <= meal.carbs_g /\ meal.carbs_g <= 90
            prot   == 25 <= meal.protein_g /\ meal.protein_g <= 40
        IN  Adj((IF lowfat THEN WEIGHTS.pre_low_fat ELSE 0 - WEIGHTS.pre_low_fat)
                  + (IF carbs THEN WEIGHTS.pre_good_carbs ELSE 0)
                  + (IF prot THEN WEIGHTS.pre_mod_protein ELSE 0),
                (IF lowfat THEN <<"pre: lighter fat">> ELSE <<>>)
                  \o (IF carbs THEN <<"pre: good carbs">> ELSE <<>>))
    ELSE IF timing = "post" THEN
        LET prot == meal.protein_g >= 35
        IN  Adj((IF prot THEN WEIGHTS.post_protein ELSE 0)
                  + (IF meal.carbs_g >= 50 THEN WEIGHTS.post_carbs ELSE 0)
                  + (IF meal.fat_g <= 20 THEN WEIGHTS.post_low_fat ELSE 0),
                IF prot THEN <<"post: protein for recovery">> ELSE <<>>)
    ELSE Adj(0, <<>>)

EffortRule(meal, effort) ==
    IF effort = "low" THEN
        IF meal.effort = "low"
        THEN Adj(WEIGHTS.effort_low_bonus, <<"low effort prep">>)
        ELSE Adj(0 - WEIGHTS.effort_low_penalty, <<>>)
    ELSE IF effort = "med" THEN
        IF meal.effort \in {"low", "med"}
        THEN Adj(WEIGHTS.effort_med_bonus, <<>>)
        ELSE Adj(0, <<>>)
    ELSE IF effort = "high" THEN
        IF meal.effort = "high"
        THEN Adj(WEIGHTS.effort_high_bonus, <<>>)
        ELSE Adj(0 - 2, <<>>)
    ELSE IF effort = "restaurant" THEN
        IF meal.takeout_ok
        THEN Adj(WEIGHTS.effort_restaurant_bonus, <<"restaurant/takeout friendly">>)
        ELSE Adj(0 - WEIGHTS.effort_restaurant_penalty, <<>>)
    ELSE Adj(0, <<>>)

SodiumRule(meal, sodium_pref) ==
    IF sodium_pref = "lower" THEN
        IF meal.sodium_mg <= 500
        THEN Adj(WEIGHTS.sodium_low_bonus, <<"lower sodium">>)
        ELSE IF meal.sodium_mg > 700
        THEN Adj(0 - WEIGHTS.sodium_high_penalty, <<>>)
        ELSE Adj(0, <<>>)
    ELSE
        IF meal.sodium_mg > 850
        THEN Adj(0 - WEIGHTS.sodium_too_high_penalty, <<>>)
        ELSE Adj(0, <<>>)

SpiceRule(meal, spice_pref) ==
    IF spice_pref # "no-pref" /\ meal.spice = spice_pref
    THEN Adj(WEIGHTS.spice_match_bonus, <<>>)
    ELSE Adj(0, <<>>)

AdvisoryFlags(meal) ==
    (IF "gluten?" \in Range(meal.allergens)
     THEN <<"gluten depends on ingredients">> ELSE <<>>)
    \o (IF "dairy?" \in Range(meal.allergens)
        THEN <<"omit butter to be dairy-free">> ELSE <<>>)

ScoreResult(score, reasons, flags) ==
    [score |-> score, reasons |-> reasons, flags |-> flags]

\* variant: a sentinel that is not the -999 of the filter
Disqualified_Weak ==
    ScoreResult(0 - 99, <<"conflicts with avoidances">>, <<"contains allergen">>)

Disqualified ==
    ScoreResult(0 - 999, <<"conflicts with avoidances">>, <<"contains allergen">>)

score_meal(meal, ans) ==
    IF AvoidsConflict(meal, ans.avoids) THEN Disqualified
    ELSE
        LET p  == ProteinRule(meal, ans.protein_pref)
            g  == GoalRule(meal, ans.goal)
            t  == TimingRule(meal, ans.timing)
            e  == EffortRule(meal, ans.effort)
            so == SodiumRule(meal, ans.sodium_pref)
            sp == SpiceRule(meal, ans.spice_pref)
        IN  ScoreResult(50 + p.d + g.d + t.d + e.d + so.d + sp.d,
                        p.r \o g.r \o t.r \o e.r \o so.r \o sp.r,
                        AdvisoryFlags(meal))


(***************************************************************************)
(* The process-global generator of module random.  CPython's Mersenne      *)
(* Twister is abstracted to a linear congruential generator over RngMod    *)
(* states: random.seed(n) sets the state to a function of n alone, each    *)
(* draw advances the state, random.shuffle is CPython's Fisher-Yates loop. *)
(***************************************************************************)
RngStates == 0..(RngMod - 1)

SeedRng(seed) == (7 * seed + 1) % RngMod

RngNext(g) == (5 * g + 3) % RngMod

\* _randbelow(n) read off the state reached by the draw
RandBelow(g, n) == g % n

Swap(x, i, j) == [x EXCEPT ![i] = x[j], ![j] = x[i]]

\* for i in reversed(range(1, len(x))): j = randbelow(i + 1); swap x[i], x[j]
\* (i is the 0-based index of the code; sequences here are 1-based)
RECURSIVE ShuffleFrom(_, _, _)
ShuffleFrom(x, i, g) ==
    IF i < 1 THEN [x |-> x, rng |-> g]
    ELSE LET g2 == RngNext(g)
             j  == RandBelow(g2, i + 1)
         IN  ShuffleFrom(Swap(x, i + 1, j + 1), i - 1, g2)

Shuffle(x, g) == ShuffleFrom(x, Len(x) - 1, g)

(***************************************************************************)
(* recommend.                                                              *)
(***************************************************************************)
NoMealsMsg ==
    "No meals fit all choices. Try relaxing one avoidance or picking 'No preference'."

HelperMsg == "Simple terminal helper for meal ideas."

\* variant: the filter lets the sentinel through
Qualifies_Sentinel(s) == s > 0 - 1000

\* if s > -500
Qualifies(s) == s > 0 - 500

\* the loop over MEALS: (s, m, r, f) of every meal that passes the filter
RECURSIVE ScoredFrom(_, _)
ScoredFrom(i, ans) ==
    IF i > NumMeals THEN <<>>
    ELSE LET sc == score_meal(MEALS[i], ans)
         IN  (IF Qualifies(sc.score)
              THEN << [s |-> sc.score, m |-> MEALS[i], r |-> sc.reasons, f |-> sc.flags] >>
              ELSE <<>>)
             \o ScoredFrom(i + 1, ans)

Scored(ans) == ScoredFrom(1, ans)

\* variant: the shuffle draws from the generator as the last call left it
SeedShuffle_Unseeded(scored, seed, g) ==
    IF seed # None THEN Shuffle(scored, g)
    ELSE [x |-> scored, rng |-> g]

\* if seed is not None: random.seed(seed); random.shuffle(scored)
SeedShuffle(scored, seed, g) ==
    IF seed # None THEN Shuffle(scored, SeedRng(seed[1]))
    ELSE [x |-> scored, rng |-> g]

\* variant: an element goes in front of the elements of equal score
RECURSIVE InsertDesc_Unstable(_, _)
InsertDesc_Unstable(sorted, e) ==
    IF sorted = <<>> THEN <<e>>
    ELSE IF Head(sorted).s > e.s
         THEN <<Head(sorted)>> \o InsertDesc_Unstable(Tail(sorted), e)
    ELSE <<e>> \o sorted

\* list.sort(key=score, reverse=True): stable, equal keys keep their order
RECURSIVE InsertDesc(_, _)
InsertDesc(sorted, e) ==
    IF sorted = <<>> THEN <<e>>
    ELSE IF Head(sorted).s >= e.s THEN <<Head(sorted)>> \o InsertDesc(Tail(sorted), e)
    ELSE <<e>> \o sorted

RECURSIVE SortDescFrom(_, _, _)
SortDescFrom(x, i, acc) ==
    IF i > Len(x) THEN acc
    ELSE SortDescFrom(x, i + 1, InsertDesc(acc, x[i]))

SortDesc(x) == SortDescFrom(x, 1, <<>>)

\* variant: x[:k-1]
Slice_OffByOne(x, k) ==
    LET n == IF k - 1 >= 0 THEN (IF k - 1 < Len(x) THEN k - 1 ELSE Len(x))
             ELSE (IF Len(x) + k - 1 > 0 THEN Len(x) + k - 1 ELSE 0)
    IN  SubSeq(x, 1, n)

\* x[:k] of a Python list, k of either sign
Slice(x, k) ==
    LET n == IF k >= 0 THEN (IF k < Len(x) THEN k ELSE Len(x))
             ELSE (IF Len(x) + k > 0 THEN Len(x) + k ELSE 0)
    IN  SubSeq(x, 1, n)

\* round(s, 1) of an integer valued float
Round1(s) == s

Package(e) ==
    [name |-> e.m.name,
     macros |-> [calories |-> e.m.calories, protein_g |-> e.m.protein_g,
                 carbs_g |-> e.m.carbs_g, fat_g |-> e.m.fat_g],
     sodium_mg |-> e.m.sodium_mg,
     score |-> Round1(e.s),
     reasons |-> e.r,
     flags |-> e.f]

\* the value returned and the state of the global generator after the call
recommend(ans, k, sd, g) ==
    LET scored == Scored(ans)
    IN  IF scored = <<>>
        THEN [top_recommendations |-> <<>>, explanation |-> NoMealsMsg, rng |-> g]
        ELSE LET sh  == SeedShuffle(scored, sd, g)
                 top == Slice(SortDesc(sh.x), k)
             IN  [top_recommendations |-> [i \in 1..Len(top) |-> Package(top[i])],
                  explanation |-> HelperMsg,
                  rng |-> sh.rng]


(***************************************************************************)
(* Answer sets.                                                            *)
(***************************************************************************)
Goals        == {"cut", "maintenance", "bulk"}
Timings      == {"pre", "post", "any"}
ProteinPrefs == {"beef", "poultry", "fish/seafood", "plant-only", "no-preference"}
Efforts      == {"low", "med", "high", "restaurant"}
SodiumPrefs  == {"normal", "lower"}
SpicePrefs   == {"mild", "medium", "spicy", "no-pref"}
Tags         == {"dairy", "gluten", "nuts", "eggs", "soy", "shellfish", "sesame"}

\* --top defaults to 3
DefaultTop == 3

AvoidSets == {S \in SUBSET Tags : Cardinality(S) <= MaxAvoids} \cup {Tags}

ValidAnswers ==
    [goal : Goals, timing : Timings, protein_pref : ProteinPrefs,
     avoids : AvoidSets, effort : Efforts, sodium_pref : SodiumPrefs,
     spice_pref : SpicePrefs]

\* values that belong to none of the enums
Unrecognized == {"other", "plant"}

Fields == {"goal", "timing", "protein_pref", "effort", "sodium_pref", "spice_pref"}

FieldEnum(f) ==
    CASE f = "goal" -> Goals
      [] f = "timing" -> Timings
      [] f = "protein_pref" -> ProteinPrefs
      [] f = "effort" -> Efforts
      [] f = "sodium_pref" -> SodiumPrefs
      [] f = "spice_pref" -> SpicePrefs

\* answer sets in which exactly one field holds an unrecognized value
OneUnrecognized ==
    UNION { { [a EXCEPT ![f] = u] : u \in Unrecognized,
              a \in {b \in ValidAnswers : b.avoids = {}} } : f \in Fields }

UnrecognizedFields(a) == {f \in Fields : a[f] \notin FieldEnum(f)}

\* answer sets that are tried with every top_k and every seed
SampleAnswers ==
    [goal : {"cut"}, timing : {"pre", "any"},
     protein_pref : {"fish/seafood", "no-preference"},
     avoids : {{}, {"shellfish"}, Tags}, effort : {"low"},
     sodium_pref : {"lower"}, spice_pref : {"mild", "no-pref"}]

TopKs == (0 - 2)..MaxTopK
Seeds == {None} \cup {Some(n) : n \in 0..MaxSeed}

Args(top, sd, no_save) == [top |-> top, seed |-> sd, no_save |-> no_save]

(***************************************************************************)
(* State.                                                                  *)
(***************************************************************************)
VARIABLES
    pc,        \* where the program is
    answers,   \* the answer set handed to score_meal and recommend
    args,      \* top, seed, no_save of the command line / of the call
    pick,      \* index in MEALS of the meal handed to score_meal
    sres,      \* <<the value score_meal returned>>, <<>> before
    results,   \* <<the value recommend returned>>, <<>> before
    rng,       \* state of the process-global generator
    ncalls,    \* number of recommend calls made so far
    first,     \* <<arguments and result of the first recommend call>>
    rc,        \* contents of ~/.mealmdrc
    prior,     \* main's prior
    wiz,       \* main's locals goal .. spice_pref, avoids, pre_idxs
    sel        \* the last line read from the terminal

vars == <<pc, answers, args, pick, sres, results, rng, ncalls, first, rc, prior, wiz, sel>>

\* the state of the wizard, which score_meal and recommend never touch
wizvars == <<rc, prior, wiz, sel>>

\* goal .. spice_pref start as None (written NoStr), avoids as []
NoStr == "<None>"

Locals0 ==
    [goal |-> NoStr, timing |-> NoStr, protein_pref |-> NoStr, avoids |-> <<>>,
     effort |-> NoStr, sodium_pref |-> NoStr, spice_pref |-> NoStr,
     pre_idxs |-> <<>>]

\* a JSON value: t is its type, v its content
J(t, v) == [t |-> t, v |-> v]
JNull == J("null", 0)
JStr(x) == J("str", x)
JNum(n) == J("num", n)
JList(x) == J("list", x)
JDict(x) == J("dict", x)
\* a key the object does not have
JMissing == J("missing", 0)

EmptyDict ==
    JDict([goal |-> JMissing, timing |-> JMissing, protein_pref |-> JMissing,
           avoids |-> JMissing, effort |-> JMissing, sodium_pref |-> JMissing,
           spice_pref |-> JMissing])

\* the file: absent, unreadable (open raises OSError), garbage (not JSON),
\* or json with the document it holds
File(kind, doc) == [kind |-> kind, doc |-> doc]
NoFile == File("absent", JNull)

\* a line typed at the prompt, after strip().lower(): the empty line, "b",
\* comma separated numbers, or anything else
Line(k, ns) == [k |-> k, ns |-> ns]
NoLine == Line("none", <<>>)
EnterKey == Line("enter", <<>>)
Back == Line("b", <<>>)
Junk == Line("junk", <<>>)
Nums(ns) == Line("nums", ns)

Out(res) == [top_recommendations |-> res.top_recommendations,
             explanation |-> res.explanation]

(***************************************************************************)
(* Spec: score_meal and recommend as functions of their arguments.         *)
(***************************************************************************)
Inputs ==
    { <<a, Args(DefaultTop, None, TRUE)>> : a \in ValidAnswers \cup OneUnrecognized }
    \cup { <<a, Args(k, sd, TRUE)>> : a \in SampleAnswers, k \in TopKs, sd \in Seeds }

Init ==
    /\ pc = "start"
    /\ \E in \in Inputs : answers = in[1] /\ args = in[2]
    /\ pick = 0
    /\ sres = <<>>
    /\ results = <<>>
    /\ rng = 0
    /\ ncalls = 0
    /\ first = <<>>
    /\ rc = NoFile
    /\ prior = EmptyDict
    /\ wiz = Locals0
    /\ sel = NoLine

ScoreMeal ==
    /\ pc = "start"
    /\ \E i \in 1..NumMeals :
          /\ pick' = i
          /\ sres' = << score_meal(MEALS[i], answers) >>
    /\ pc' = "scored"
    /\ UNCHANGED <<answers, args, results, rng, ncalls, first, wizvars>>

Recommend ==
    /\ pc = "start"
    /\ LET res == recommend(answers, args.top, args.seed, rng)
       IN  /\ results' = << Out(res) >>
           /\ rng' = res.rng
    /\ pc' = "done"
    /\ ncalls' = ncalls + 1
    /\ UNCHANGED <<answers, args, pick, sres, first, wizvars>>

Next == ScoreMeal \/ Recommend

Spec == Init /\ [][Next]_vars


(***************************************************************************)
(* Vocabulary of the properties.                                           *)
(***************************************************************************)
Min(a, b) == IF a <= b THEN a ELSE b

IsConditional(t) == BaseTag(t) # t

BaseTags(ml) == {BaseTag(t) : t \in Range(ml.allergens)}
HardTags(ml) == {t \in Range(ml.allergens) : ~IsConditional(t)}

Top == results[1].top_recommendations
TopNames == {Top[i].name : i \in 1..Len(Top)}

CatalogIndex(name) == CHOOSE i \in 1..NumMeals : MEALS[i].name = name

QualifyingMeals(a) ==
    {i \in 1..NumMeals : score_meal(MEALS[i], a).score > 0 - 500}

\* C1 (as stated): a meal one of whose tags, '?' stripped, is avoided scores
\* exactly -999 and is in no recommend result.
C1_StrippedTagsDisqualify ==
    /\ pc = "scored" =>
          (BaseTags(MEALS[pick]) \cap answers.avoids # {} => sres[1].score = 0 - 999)
    /\ pc = "done" =>
          \A i \in 1..NumMeals :
             BaseTags(MEALS[i]) \cap answers.avoids # {} => MEALS[i].name \notin TopNames

\* C1 (amended): a meal one of whose hard tags (tags without a trailing '?')
\* is avoided scores exactly -999 and is in no recommend result.
C1_HardTagsDisqualify ==
    /\ pc = "scored" =>
          (HardTags(MEALS[pick]) \cap answers.avoids # {} => sres[1].score = 0 - 999)
    /\ pc = "done" =>
          \A i \in 1..NumMeals :
             HardTags(MEALS[i]) \cap answers.avoids # {} => MEALS[i].name \notin TopNames

C1_Witness ==
    /\ pc = "done"
    /\ answers.avoids = {"shellfish"}
    /\ Top # <<>>
    /\ "Shrimp Rice Bowl" \notin TopNames

\* C2: a meal whose allergen list holds an avoided tag verbatim gets the
\* disqualification triple from score_meal and is absent from
\* top_recommendations, whatever top_k and seed.
C2_VerbatimTagDisqualifies ==
    /\ pc = "scored" =>
          (Range(MEALS[pick].allergens) \cap answers.avoids # {} =>
              sres = << [score |-> 0 - 999,
                         reasons |-> <<"conflicts with avoidances">>,
                         flags |-> <<"contains allergen">>] >>)
    /\ pc = "done" =>
          \A i \in 1..NumMeals :
             Range(MEALS[i].allergens) \cap answers.avoids # {} =>
                 \A j \in 1..Len(Top) : Top[j].name # MEALS[i].name

C2_Witness ==
    /\ pc = "scored"
    /\ answers.avoids = {"shellfish"}
    /\ answers.protein_pref = "fish/seafood"
    /\ MEALS[pick].name = "Shrimp Rice Bowl"
    /\ sres[1].score = 0 - 999

\* C3 (as stated): for every integer top_k the number of recommendations is
\* min(top_k, number of meals scoring > -500).
C3_LengthIsMin ==
    pc = "done" =>
        Len(Top) = Min(args.top, Cardinality(QualifyingMeals(answers)))

\* C3 (amended): for every top_k >= 0 the number of recommendations is
\* min(top_k, number of meals scoring > -500).
C3_LengthIsMinNonNegative ==
    (pc = "done" /\ args.top >= 0) =>
        Len(Top) = Min(args.top, Cardinality(QualifyingMeals(answers)))

C3_Witness ==
    /\ pc = "done"
    /\ args.top > Cardinality(QualifyingMeals(answers))
    /\ Len(Top) = Cardinality(QualifyingMeals(answers))
    /\ Len(Top) > 0

\* the catalog meals none of whose tags is, verbatim, one of the seven
TagFree ==
    {"Lentil Curry + Rice", "Turkey Chili (Lean)", "Beef Steak Plate",
     "Sardine Avocado Toast", "Chickpea Pasta Primavera"}

\* C4 (as stated): with all seven tags avoided recommend returns no meal and
\* the "No meals fit" explanation.
C4_AllAvoidedIsEmpty ==
    (pc = "done" /\ answers.avoids = Tags) =>
        /\ Top = <<>>
        /\ results[1].explanation = NoMealsMsg

\* C4 (amended): with all seven tags avoided recommend returns the regular
\* explanation and min(top_k, 5) meals (top_k >= 0), all among the five
\* catalog meals that carry none of the seven as a verbatim tag.
C4_AllAvoidedLeavesTagFree ==
    (pc = "done" /\ answers.avoids = Tags) =>
        /\ results[1].explanation = HelperMsg
        /\ TopNames \subseteq TagFree
        /\ args.top >= 0 => Len(Top) = Min(args.top, Cardinality(TagFree))

C4_Witness ==
    /\ pc = "done"
    /\ answers.avoids = Tags
    /\ TopNames = TagFree

\* what score_meal returns when the rule of field f contributes nothing
ScoreWithout(ml, a, f) ==
    IF AvoidsConflict(ml, a.avoids) THEN Disqualified
    ELSE
        LET Z(g, adj) == IF g = f THEN Adj(0, <<>>) ELSE adj
            p  == Z("protein_pref", ProteinRule(ml, a.protein_pref))
            g  == Z("goal", GoalRule(ml, a.goal))
            t  == Z("timing", TimingRule(ml, a.timing))
            e  == Z("effort", EffortRule(ml, a.effort))
            so == Z("sodium_pref", SodiumRule(ml, a.sodium_pref))
            sp == Z("spice_pref", SpiceRule(ml, a.spice_pref))
        IN  ScoreResult(50 + p.d + g.d + t.d + e.d + so.d + sp.d,
                        p.r \o g.r \o t.r \o e.r \o so.r \o sp.r,
                        AdvisoryFlags(ml))

\* C7: when one field holds a value outside its enum, score_meal returns
\* what it would return with that field's rule adding nothing to the score
\* and appending no reason.
C7_UnrecognizedValueIgnored ==
    pc = "scored" =>
        \A f \in Fields :
            UnrecognizedFields(answers) = {f} =>
                sres[1] = ScoreWithout(MEALS[pick], answers, f)

\* C8: top_recommendations is in non-increasing score order, no qualifying
\* meal left out scores higher than a returned one, and without a seed
\* equal-scoring meals are in catalog order.
C8_RankedByScore ==
    pc = "done" =>
        /\ \A p \in 1..Len(Top) : \A q \in 1..Len(Top) :
              p < q => Top[p].score >= Top[q].score
        /\ \A p \in 1..Len(Top) : \A i \in QualifyingMeals(answers) :
              MEALS[i].name \notin TopNames =>
                  Top[p].score >= score_meal(MEALS[i], answers).score
        /\ args.seed = None =>
              \A p \in 1..Len(Top) : \A q \in 1..Len(Top) :
                  (p < q /\ Top[p].score = Top[q].score) =>
                      CatalogIndex(Top[p].name) < CatalogIndex(Top[q].name)

C8_Witness ==
    /\ pc = "done"
    /\ args.seed = None
    /\ \E p \in 1..Len(Top) : \E q \in 1..Len(Top) :
          p < q /\ Top[p].score = Top[q].score
    /\ \E i \in QualifyingMeals(answers) : MEALS[i].name \notin TopNames
    /\ \E p \in 1..Len(Top) : \E q \in 1..Len(Top) : Top[p].score > Top[q].score


(***************************************************************************)
(* SpecCalls: one process calls recommend several times; the generator of  *)
(* module random is shared by the calls and starts in any state.           *)
(***************************************************************************)
CallAnswers ==
    { [goal |-> "maintenance", timing |-> "any", protein_pref |-> "no-preference",
       avoids |-> {}, effort |-> "med", sodium_pref |-> "normal",
       spice_pref |-> "no-pref"],
      [goal |-> "cut", timing |-> "post", protein_pref |-> "plant-only",
       avoids |-> Tags, effort |-> "low", sodium_pref |-> "lower",
       spice_pref |-> "mild"] }

CallTops == {1, DefaultTop}

InitCalls ==
    /\ pc = "session"
    /\ answers \in CallAnswers
    /\ args = Args(DefaultTop, None, TRUE)
    /\ pick = 0
    /\ sres = <<>>
    /\ results = <<>>
    /\ rng \in RngStates
    /\ ncalls = 0
    /\ first = <<>>
    /\ rc = NoFile
    /\ prior = EmptyDict
    /\ wiz = Locals0
    /\ sel = NoLine

Call(a, k, sd) ==
    /\ pc \in {"session", "called"}
    /\ ncalls < MaxCalls
    /\ LET res == recommend(a, k, sd, rng)
       IN  /\ results' = << Out(res) >>
           /\ rng' = res.rng
           /\ first' = IF ncalls = 0
                       THEN << [answers |-> a, args |-> Args(k, sd, TRUE),
                                out |-> Out(res)] >>
                       ELSE first
    /\ answers' = a
    /\ args' = Args(k, sd, TRUE)
    /\ ncalls' = ncalls + 1
    /\ pc' = "called"
    /\ UNCHANGED <<pick, sres, wizvars>>

NextCalls == \E a \in CallAnswers, k \in CallTops, sd \in Seeds : Call(a, k, sd)

SpecCalls == InitCalls /\ [][NextCalls]_vars

\* C5: a recommend call with the arguments (answers, top_k, seed) of an
\* earlier call returns a result equal to the earlier one, whatever calls
\* ran in between.
C5_SameArgumentsSameResult ==
    (pc = "called" /\ first[1].answers = answers /\ first[1].args = args) =>
        results[1] = first[1].out

C5_Witness ==
    /\ pc = "called"
    /\ ncalls >= 3
    /\ first[1].answers = answers
    /\ first[1].args = args
    /\ args.seed # None
    /\ results[1] = first[1].out
    /\ \E p \in 1..Len(Top) : \E q \in 1..Len(Top) :
          p < q /\ Top[p].score = Top[q].score
                /\ CatalogIndex(Top[p].name) > CatalogIndex(Top[q].name)

\* C6: a recommend call made with a seed leaves the state of the
\* process-global generator as it found it.
C6_SeededCallKeepsGlobalState ==
    [][(ncalls' = ncalls + 1 /\ args'.seed # None) => rng' = rng]_vars


(***************************************************************************)
(* The preference store and the prompts.                                   *)
(***************************************************************************)
\* load_prefs: the document of a readable JSON file, None (JNull) otherwise
load_prefs(file) == IF file.kind = "json" THEN file.doc ELSE JNull

\* Python truth value of a JSON value
Truthy(j) ==
    CASE j.t = "null" -> FALSE
      [] j.t = "num"  -> j.v # 0
      [] j.t = "str"  -> j.v # ""
      [] j.t = "list" -> j.v # <<>>
      [] j.t = "dict" -> \E key \in DOMAIN j.v : j.v[key].t # "missing"
      [] OTHER -> FALSE

\* load_prefs() or {}
LoadPrior(file) ==
    LET j == load_prefs(file) IN IF Truthy(j) THEN j ELSE EmptyDict

\* the outcome of an expression: the exception escaped, or the value val
Raised == [raised |-> TRUE, val |-> <<>>]
Value(x) == [raised |-> FALSE, val |-> x]

\* table.get(prior.get(key)): <<index>> or None; raises when prior has no
\* method get (AttributeError) or the stored value is unhashable (TypeError)
DefaultIndex(table, pr, key) ==
    IF pr.t # "dict" THEN Raised
    ELSE LET j == pr.v[key]
         IN  IF j.t \in {"list", "dict"} THEN Raised
             ELSE IF j.t = "str" /\ j.v \in DOMAIN table THEN Value(Some(table[j.v]))
             ELSE Value(None)

GoalIndex    == [cut |-> 1, maintenance |-> 2, bulk |-> 3]
TimingIndex  == [pre |-> 1, post |-> 2, any |-> 3]
ProteinIndex == ("beef" :> 1) @@ ("poultry" :> 2) @@ ("fish/seafood" :> 3)
                @@ ("plant-only" :> 4) @@ ("no-preference" :> 5)
EffortIndex  == [low |-> 1, med |-> 2, high |-> 3, restaurant |-> 4]
SodiumIndex  == [normal |-> 1, lower |-> 2]
SpiceIndex   == ("mild" :> 1) @@ ("medium" :> 2) @@ ("spicy" :> 3) @@ ("no-pref" :> 4)

GoalOf    == <<"cut", "maintenance", "bulk">>
TimingOf  == <<"pre", "post", "any">>
ProteinOf == <<"beef", "poultry", "fish/seafood", "plant-only", "no-preference">>
EffortOf  == <<"low", "med", "high", "restaurant">>
SodiumOf  == <<"normal", "lower">>
SpiceOf   == <<"mild", "medium", "spicy", "no-pref">>

avoids_lookup == <<"Dairy", "Gluten", "Nuts", "Eggs", "Soy", "Shellfish", "Sesame">>

\* str.capitalize and str.lower on the words that occur
Capitalize(w) ==
    CASE w = "dairy" -> "Dairy" [] w = "gluten" -> "Gluten" [] w = "nuts" -> "Nuts"
      [] w = "eggs" -> "Eggs" [] w = "soy" -> "Soy" [] w = "shellfish" -> "Shellfish"
      [] w = "sesame" -> "Sesame" [] w = "fish" -> "Fish" [] OTHER -> w

Lower(w) ==
    CASE w = "Dairy" -> "dairy" [] w = "Gluten" -> "gluten" [] w = "Nuts" -> "nuts"
      [] w = "Eggs" -> "eggs" [] w = "Soy" -> "soy" [] w = "Shellfish" -> "shellfish"
      [] w = "Sesame" -> "sesame" [] OTHER -> w

\* avoids_lookup.index(w) + 1
LookupIndex(w) == CHOOSE i \in 1..Len(avoids_lookup) : avoids_lookup[i] = w

\* [avoids_lookup.index(a.capitalize()) + 1 for a in prior.get("avoids", [])
\*  if a.capitalize() in avoids_lookup]: raises when the stored value cannot
\* be iterated or holds an entry that is not a string
RECURSIVE PreIdxsFrom(_, _)
PreIdxsFrom(xs, i) ==
    IF i > Len(xs) THEN <<>>
    ELSE (IF Capitalize(xs[i].v) \in Range(avoids_lookup)
          THEN << LookupIndex(Capitalize(xs[i].v)) >> ELSE <<>>)
         \o PreIdxsFrom(xs, i + 1)

PreIdxs(pr) ==
    LET j == pr.v.avoids
    IN  IF j.t = "missing" THEN Value(<<>>)
        ELSE IF j.t = "str" THEN Value(<<>>)
        ELSE IF j.t # "list" THEN Raised
        ELSE IF \E i \in 1..Len(j.v) : j.v[i].t # "str" THEN Raised
        ELSE Value(PreIdxsFrom(j.v, 1))

\* ask: <<index>>, <<0>>, <<-1>> for Back, or <<>> when the line is refused
\* and the prompt is repeated
ask(line, n, allow_zero, allow_back, default_index) ==
    IF default_index # None /\ line = EnterKey THEN default_index
    ELSE IF allow_back /\ line = Back THEN Some(0 - 1)
    ELSE IF allow_zero /\ line = Nums(<<0>>) THEN Some(0)
    ELSE IF line.k = "nums" /\ Len(line.ns) = 1 /\ 1 <= line.ns[1] /\ line.ns[1] <= n
         THEN Some(line.ns[1])
    ELSE <<>>

\* sorted(set(idxs))
SortedSet(ns) ==
    LET S == Range(ns)
        RECURSIVE Asc(_)
        Asc(T) == IF T = {} THEN <<>>
                  ELSE LET lo == CHOOSE x \in T : \A y \in T : x <= y
                       IN  <<lo>> \o Asc(T \ {lo})
    IN  Asc(S)

\* ask_multi: <<list>>, <<[-1]>> for Back, or <<>> when the line is refused
ask_multi(line, n, allow_back) ==
    IF allow_back /\ line = Back THEN << <<0 - 1>> >>
    ELSE IF line = Nums(<<0>>) THEN << <<>> >>
    ELSE IF line = EnterKey THEN << <<>> >>
    ELSE IF line.k = "nums" /\ \A i \in 1..Len(line.ns) : 1 <= line.ns[i] /\ line.ns[i] <= n
         THEN << SortedSet(line.ns) >>
    ELSE <<>>

\* the answers dict of main; score_meal reads avoids through set(...)
AnswersOf(w) ==
    [goal |-> w.goal, timing |-> w.timing, protein_pref |-> w.protein_pref,
     avoids |-> Range(w.avoids), effort |-> w.effort,
     sodium_pref |-> w.sodium_pref, spice_pref |-> w.spice_pref]

\* json.dump(answers): the document save_prefs writes
DumpAnswers(w) ==
    JDict([goal |-> JStr(w.goal), timing |-> JStr(w.timing),
           protein_pref |-> JStr(w.protein_pref),
           avoids |-> JList([i \in 1..Len(w.avoids) |-> JStr(w.avoids[i])]),
           effort |-> JStr(w.effort), sodium_pref |-> JStr(w.sodium_pref),
           spice_pref |-> JStr(w.spice_pref)])


(***************************************************************************)
(* SpecWizard: main().  pc is the prompt the program is blocked at; the    *)
(* action of a prompt reads one line and runs main up to the next prompt.  *)
(* goal_back and protein_back are the prompts at lines 381 and 411.        *)
(***************************************************************************)
Lines ==
    {EnterKey, Back, Junk}
    \cup {Nums(q) : q \in UNION {[1..n -> 0..MaxChoice] : n \in 1..MaxPicks}}

SavedPrefs ==
    JDict([goal |-> JStr("bulk"), timing |-> JStr("post"),
           protein_pref |-> JStr("fish/seafood"),
           avoids |-> JList(<<JStr("shellfish"), JStr("fish")>>),
           effort |-> JStr("restaurant"), sodium_pref |-> JStr("lower"),
           spice_pref |-> JStr("spicy")])

\* what ~/.mealmdrc may hold when the program starts
PrefsFiles ==
    { NoFile,
      File("unreadable", JNull),
      File("garbage", JNull),
      File("json", SavedPrefs),
      File("json", EmptyDict),
      File("json", JList(<<>>)),
      File("json", JList(<<JNum(1)>>)),
      File("json", JNum(7)),
      File("json", JDict([EmptyDict.v EXCEPT !.avoids = JList(<<JNum(1)>>)])),
      File("json", JDict([EmptyDict.v EXCEPT !.avoids = JNum(1)])),
      File("json", JDict([EmptyDict.v EXCEPT !.effort = JList(<<>>)])) }

InitWizard ==
    /\ pc = "boot"
    /\ rc \in PrefsFiles
    /\ \E ns \in BOOLEAN : args = Args(DefaultTop, None, ns)
    /\ answers = AnswersOf(Locals0)
    /\ pick = 0
    /\ sres = <<>>
    /\ results = <<>>
    /\ rng = 0
    /\ ncalls = 0
    /\ first = <<>>
    /\ prior = EmptyDict
    /\ wiz = Locals0
    /\ sel = NoLine

\* where main is after evaluating d on the way to prompt q
Arrive(q, d) == IF d.raised THEN "crashed" ELSE q

corevars == <<answers, args, pick, sres, results, rng, ncalls, first>>

\* prior = load_prefs() or {}, then line 370
LoadPrefs ==
    /\ pc = "boot"
    /\ prior' = LoadPrior(rc)
    /\ pc' = Arrive("goal", DefaultIndex(GoalIndex, prior', "goal"))
    /\ UNCHANGED <<corevars, rc, wiz, sel>>

\* the line is refused: ask prints a warning and reads again
Refused(line) ==
    /\ sel' = line
    /\ UNCHANGED <<pc, wiz, corevars, rc, prior>>

AskGoal ==
    /\ pc = "goal"
    /\ \E line \in Lines :
        LET g == ask(line, 3, FALSE, FALSE, DefaultIndex(GoalIndex, prior, "goal").val)
        IN  IF g = <<>> THEN Refused(line)
            ELSE /\ sel' = line
                 /\ wiz' = [wiz EXCEPT !.goal = GoalOf[g[1]]]
                 /\ pc' = Arrive("timing", DefaultIndex(TimingIndex, prior, "timing"))
                 /\ UNCHANGED <<corevars, rc, prior>>

AskTiming ==
    /\ pc = "timing"
    /\ \E line \in Lines :
        LET t == ask(line, 3, FALSE, TRUE, DefaultIndex(TimingIndex, prior, "timing").val)
        IN  IF t = <<>> THEN Refused(line)
            ELSE IF t[1] = 0 - 1 THEN
                 \* back to goal
                 /\ sel' = line
                 /\ pc' = "goal_back"
                 /\ UNCHANGED <<wiz, corevars, rc, prior>>
            ELSE /\ sel' = line
                 /\ wiz' = [wiz EXCEPT !.timing = TimingOf[t[1]]]
                 /\ pc' = Arrive("protein", DefaultIndex(ProteinIndex, prior, "protein_pref"))
                 /\ UNCHANGED <<corevars, rc, prior>>

\* line 381, then continue: the timing prompt again
AskGoalBack ==
    /\ pc = "goal_back"
    /\ \E line \in Lines :
        LET g == ask(line, 3, FALSE, FALSE, DefaultIndex(GoalIndex, prior, "goal").val)
        IN  IF g = <<>> THEN Refused(line)
            ELSE /\ sel' = line
                 /\ wiz' = [wiz EXCEPT !.goal = GoalOf[g[1]]]
                 /\ pc' = Arrive("timing", DefaultIndex(TimingIndex, prior, "timing"))
                 /\ UNCHANGED <<corevars, rc, prior>>

AskProtein ==
    /\ pc = "protein"
    /\ \E line \in Lines :
        LET p == ask(line, 5, FALSE, TRUE, DefaultIndex(ProteinIndex, prior, "protein_pref").val)
            pre == PreIdxs(prior)
        IN  IF p = <<>> THEN Refused(line)
            ELSE IF p[1] = 0 - 1 THEN
                 \* "back to timing": continue, the same prompt again
                 /\ sel' = line
                 /\ pc' = Arrive("protein", DefaultIndex(ProteinIndex, prior, "protein_pref"))
                 /\ UNCHANGED <<wiz, corevars, rc, prior>>
            ELSE /\ sel' = line
                 /\ wiz' = [wiz EXCEPT !.protein_pref = ProteinOf[p[1]],
                                       !.pre_idxs = pre.val]
                 /\ pc' = Arrive("avoids", pre)
                 /\ UNCHANGED <<corevars, rc, prior>>

AskAvoids ==
    /\ pc = "avoids"
    /\ \E line \in Lines :
        LET idxs == ask_multi(line, Len(avoids_lookup), TRUE)
        IN  IF idxs = <<>> THEN Refused(line)
            ELSE IF idxs[1] = <<0 - 1>> THEN
                 \* back to protein pref
                 /\ sel' = line
                 /\ pc' = Arrive("protein_back", DefaultIndex(ProteinIndex, prior, "protein_pref"))
                 /\ UNCHANGED <<wiz, corevars, rc, prior>>
            ELSE /\ sel' = line
                 /\ wiz' = [wiz EXCEPT !.avoids =
                               [i \in 1..Len(idxs[1]) |-> Lower(avoids_lookup[idxs[1][i]])]]
                 /\ pc' = Arrive("effort", DefaultIndex(EffortIndex, prior, "effort"))
                 /\ UNCHANGED <<corevars, rc, prior>>

\* line 411, then continue: the avoidances prompt again
AskProteinBack ==
    /\ pc = "protein_back"
    /\ \E line \in Lines :
        LET p == ask(line, 5, FALSE, FALSE, DefaultIndex(ProteinIndex, prior, "protein_pref").val)
        IN  IF p = <<>> THEN Refused(line)
            ELSE /\ sel' = line
                 /\ wiz' = [wiz EXCEPT !.protein_pref = ProteinOf[p[1]]]
                 /\ pc' = "avoids"
                 /\ UNCHANGED <<corevars, rc, prior>>

AskEffort ==
    /\ pc = "effort"
    /\ \E line \in Lines :
        LET e == ask(line, 4, FALSE, TRUE, DefaultIndex(EffortIndex, prior, "effort").val)
        IN  IF e = <<>> THEN Refused(line)
            ELSE IF e[1] = 0 - 1 THEN
                 \* "back to avoids": continue, the same prompt again
                 /\ sel' = line
                 /\ pc' = Arrive("effort", DefaultIndex(EffortIndex, prior, "effort"))
                 /\ UNCHANGED <<wiz, corevars, rc, prior>>
            ELSE /\ sel' = line
                 /\ wiz' = [wiz EXCEPT !.effort = EffortOf[e[1]]]
                 /\ pc' = Arrive("sodium", DefaultIndex(SodiumIndex, prior, "sodium_pref"))
                 /\ UNCHANGED <<corevars, rc, prior>>

AskSodium ==
    /\ pc = "sodium"
    /\ \E line \in Lines :
        LET so == ask(line, 2, FALSE, TRUE, DefaultIndex(SodiumIndex, prior, "sodium_pref").val)
        IN  IF so = <<>> THEN Refused(line)
            ELSE IF so[1] = 0 - 1 THEN
                 \* "back to effort": continue, the same prompt again
                 /\ sel' = line
                 /\ pc' = Arrive("sodium", DefaultIndex(SodiumIndex, prior, "sodium_pref"))
                 /\ UNCHANGED <<wiz, corevars, rc, prior>>
            ELSE /\ sel' = line
                 /\ wiz' = [wiz EXCEPT !.sodium_pref = SodiumOf[so[1]]]
                 /\ pc' = Arrive("spice", DefaultIndex(SpiceIndex, prior, "spice_pref"))
                 /\ UNCHANGED <<corevars, rc, prior>>

\* save_prefs: the file holds the answers, or is left alone on OSError
save_prefs(file, w) == {File("json", DumpAnswers(w)), file}

\* the last prompt, then lines 451-464: answers, save_prefs, recommend
AskSpice ==
    /\ pc = "spice"
    /\ \E line \in Lines :
        LET sp == ask(line, 4, FALSE, TRUE, DefaultIndex(SpiceIndex, prior, "spice_pref").val)
        IN  IF sp = <<>> THEN Refused(line)
            ELSE IF sp[1] = 0 - 1 THEN
                 \* "back to sodium": continue, the same prompt again
                 /\ sel' = line
                 /\ pc' = Arrive("spice", DefaultIndex(SpiceIndex, prior, "spice_pref"))
                 /\ UNCHANGED <<wiz, corevars, rc, prior>>
            ELSE /\ sel' = line
                 /\ wiz' = [wiz EXCEPT !.spice_pref = SpiceOf[sp[1]]]
                 /\ answers' = AnswersOf(wiz')
                 /\ rc' \in (IF args.no_save THEN {rc} ELSE save_prefs(rc, wiz'))
                 /\ LET res == recommend(answers', args.top, args.seed, rng)
                    IN  /\ results' = << Out(res) >>
                        /\ rng' = res.rng
                 /\ ncalls' = ncalls + 1
                 /\ pc' = "done"
                 /\ UNCHANGED <<args, pick, sres, first, prior>>

NextWizard ==
    \/ LoadPrefs
    \/ AskGoal
    \/ AskTiming
    \/ AskGoalBack
    \/ AskProtein
    \/ AskAvoids
    \/ AskProteinBack
    \/ AskEffort
    \/ AskSodium
    \/ AskSpice

SpecWizard == InitWizard /\ [][NextWizard]_vars


\* the file holds an answer set: an object whose values are strings and
\* whose avoids, if any, is a list of strings
WellFormed(file) ==
    /\ file.kind = "json"
    /\ file.doc.t = "dict"
    /\ \A key \in DOMAIN file.doc.v :
          LET j == file.doc.v[key]
          IN  IF key = "avoids"
              THEN \/ j.t = "missing"
                   \/ j.t = "list" /\ \A i \in 1..Len(j.v) : j.v[i].t = "str"
              ELSE j.t \in {"missing", "str"}

\* no prompt is offered a stored default
NoDefaults(pr) ==
    /\ pr.t = "dict"
    /\ DefaultIndex(GoalIndex, pr, "goal") = Value(None)
    /\ DefaultIndex(TimingIndex, pr, "timing") = Value(None)
    /\ DefaultIndex(ProteinIndex, pr, "protein_pref") = Value(None)
    /\ DefaultIndex(EffortIndex, pr, "effort") = Value(None)
    /\ DefaultIndex(SodiumIndex, pr, "sodium_pref") = Value(None)
    /\ DefaultIndex(SpiceIndex, pr, "spice_pref") = Value(None)
    /\ PreIdxs(pr) = Value(<<>>)

\* C9: when the preferences file is absent, unreadable, not JSON or JSON of
\* another shape than an answer set, main does not terminate with an error
\* and runs the prompts with no stored defaults.
C9_MalformedPrefsAreNonFatal ==
    (pc # "done" /\ ~WellFormed(rc)) =>
        /\ pc # "crashed"
        /\ pc # "boot" => NoDefaults(prior)

\* the question a prompt asks, and the question before it
QuestionAt(p) ==
    CASE p = "goal_back" -> "goal"
      [] p = "protein_back" -> "protein"
      [] OTHER -> p

PreviousQuestion ==
    [timing |-> "goal", protein |-> "timing", avoids |-> "protein",
     effort |-> "avoids", sodium |-> "effort", spice |-> "sodium"]

\* C10: 'b' at a question brings up the question before it (goal from
\* timing, timing from protein preference, protein preference from
\* avoidances, avoidances from effort, effort from sodium, sodium from
\* spice), and the answer set built at the end holds the latest answers.
C10_BackReturnsToPreviousQuestion ==
    [][ /\ (pc \in DOMAIN PreviousQuestion /\ sel' = Back) =>
              QuestionAt(pc') = PreviousQuestion[pc]
        /\ pc' = "done" => answers' = AnswersOf(wiz') ]_vars

\* the meal carries, verbatim, a tag the answer set avoids
Conflicts(i, a) == Range(MEALS[i].allergens) \cap a.avoids # {}

\* C11: over the declared enums a score that is not the -999 sentinel lies
\* in 0..94, so the filter score > -500 drops a meal exactly when the
\* avoidance rule disqualified it: a disqualified meal is never returned and
\* every other meal is returned when top_k does not truncate.
C11_FilterDropsExactlyDisqualified ==
    UnrecognizedFields(answers) = {} =>
        /\ pc = "scored" =>
              /\ sres[1].score # 0 - 999 => (0 <= sres[1].score /\ sres[1].score <= 94)
              /\ sres[1].score > 0 - 500 <=> ~Conflicts(pick, answers)
        /\ pc = "done" =>
              /\ \A i \in 1..NumMeals :
                    MEALS[i].name \in TopNames => ~Conflicts(i, answers)
              /\ args.top >= NumMeals =>
                    \A i \in 1..NumMeals :
                        ~Conflicts(i, answers) => MEALS[i].name \in TopNames

C11_Witness ==
    /\ pc = "done"
    /\ UnrecognizedFields(answers) = {}
    /\ args.top >= NumMeals
    /\ \E i \in 1..NumMeals : Conflicts(i, answers)
    /\ \E j \in 1..Len(Top) : Top[j].score < 50
    /\ Len(Top) = Cardinality({i \in 1..NumMeals : ~Conflicts(i, answers)})

=============================================================================
